---- MODULE Spec2Model ----
(***************************************************************************)
(* The temporal sequence tracker of cvjutsu (cvjutsu/sequence_tracker.py): *)
(* noisy per-frame predictions -> rolling-window majority vote -> stable   *)
(* seals -> confirmed sequence -> jutsu match (longest suffix first, with  *)
(* a delay for single-seal jutsu).                                         *)
(* The seal classifier (cvjutsu/classifier.py) is modelled by its model,   *)
(* its classes and the model files on disk.                                *)
(*                                                                         *)
(* Time is wall-clock time in ticks of half a second (time.time() read at  *)
(* the start of every update), confidence is in percent.  The tracker      *)
(* reads its configuration from the attributes of the module config.       *)
(***************************************************************************)
EXTENDS Integers, Sequences, FiniteSets, TLC

\* ---------------------------------------------------------------- config.py

\* seal = None (no prediction); also the "no stable seal" result.
None == "none"

\* config.SEAL_HOLD_FRAMES: capacity of the rolling window.
SEAL_HOLD_FRAMES == 5

\* config.SEQUENCE_TIMEOUT_SEC = 5.0 s, in half-second ticks.
SEQUENCE_TIMEOUT_SEC == 10

\* config.SINGLE_SEAL_DELAY_SEC = 1.5 s, in half-second ticks.
SINGLE_SEAL_DELAY_SEC == 3

\* config.CONFIDENCE_THRESHOLD = 0.6, in percent.
CONFIDENCE_THRESHOLD == 60

\* -------------------------------------------------------------- jutsu_db.py

\* matched_jutsu / _pending_single_jutsu = None.
NoJutsu == [name |-> "none", seals |-> <<>>]

\* The shipped catalog, in its order (name and seals of each Jutsu).
JUTSU_LIST ==
    << [name |-> "katon_goukakyu", seals |-> <<"mi", "hitsuji", "tora">>],
       [name |-> "kage_bunshin",   seals |-> <<"hitsuji">>],
       [name |-> "chidori",        seals |-> <<"ushi", "tori", "hitsuji">>] >>

\* ----------------------------------------------------------- classifier.py

\* self._model = None: no model.
NoModel == [classes_ |-> <<>>]

\* A path under which no file exists.
Absent == [model |-> NoModel, classes |-> <<"absent">>]

\* What a call of the classifier returned: no label, and no call yet.
NoOutcome ==
    [op |-> "init", path |-> "none", raised |-> "none", ok |-> FALSE,
     label |-> None, confidence |-> 0]

\* --------------------------------------------- effects.py, main_window.py

\* Jutsu.display of the catalog entries, by name.
Display(name) ==
    CASE name = "katon_goukakyu" -> "Katon: Goukakyu (Fireball)"
      [] name = "kage_bunshin"   -> "Kage Bunshin (Shadow Clone)"
      [] name = "chidori"        -> "Chidori"

\* Jutsu.element of the catalog entries, by name.
Element(name) ==
    CASE name = "katon_goukakyu" -> "Fire"
      [] name = "kage_bunshin"   -> "None"
      [] name = "chidori"        -> "Lightning"

\* Jutsu.effect_asset of the catalog entries, by name.
EffectAsset(name) ==
    CASE name = "katon_goukakyu" -> "fireball.png"
      [] name = "kage_bunshin"   -> "shadow_clone.png"
      [] name = "chidori"        -> "chidori.png"

\* Path(effect_name).stem
Stem(effect_name) ==
    CASE effect_name = "fireball.png"     -> "fireball"
      [] effect_name = "shadow_clone.png" -> "shadow_clone"
      [] effect_name = "chidori.png"      -> "chidori"

\* EffectOverlay.EFFECT_DURATION = 3.0 s, in half-second ticks.
EFFECT_DURATION == 6

\* The frames the confirmation flash lasts (self._confirm_flash_frames = 4).
FLASH_FRAMES == 4

\* config.MODEL_PATH, the path MainWindow loads the model from.
MODEL_PATH == "seal_classifier.pkl"

\* completed, before _count_matching_prefix was called.
NotCounted == -1

\* What a frame shows when it draws no banner and renders no effect.
NothingDrawn == [path |-> "none", banner |-> None, effect |-> None]

\* ------------------------------------------------------------------ bounds

\* Latest wall-clock reading (ticks) at which an update is still made.
MaxTime == 14

\* A stall of the frame loop (ticks): longer than the idle timeout.
MaxGap == 11

\* Longest confirmed sequence an update may build.
MaxSeq == 3

\* Longest confirmed sequence in the scenario of chidori followed by a second
\* hitsuji.
MaxEncore == 4

\* Wall-clock gaps between two consecutive calls: none, one single-seal delay,
\* two (a short stall, within the idle timeout), and a long stall.
Gaps == {0, SINGLE_SEAL_DELAY_SEC, 2 * SINGLE_SEAL_DELAY_SEC, MaxGap}

\* Seals the classifier predicts in the general specification.
InputSeals == {"hitsuji", "tori"}

\* Confidences the classifier reports (percent): below and above threshold.
InputConfidences == {30, 90}

\* Confidences below the threshold (percent), the second just below it.
QuietConfidences == {30, CONFIDENCE_THRESHOLD - 1}

\* Seals the classifier predicts in the chidori specification.
ChidoriSeals == {"ushi", "tori", "hitsuji"}

\* The attributes of config the tracker reads, as shipped.
ShippedConfig ==
    [ SEAL_HOLD_FRAMES      |-> SEAL_HOLD_FRAMES,
      SEQUENCE_TIMEOUT_SEC  |-> SEQUENCE_TIMEOUT_SEC,
      SINGLE_SEAL_DELAY_SEC |-> SINGLE_SEAL_DELAY_SEC ]

\* Configurations a tracker is constructed under in the configuration
\* specification: each attribute as shipped or malformed (a negative or zero
\* window capacity, a negative timeout, a negative delay).
Configs ==
    [ SEAL_HOLD_FRAMES      : {-1, 0, SEAL_HOLD_FRAMES},
      SEQUENCE_TIMEOUT_SEC  : {-1, SEQUENCE_TIMEOUT_SEC},
      SINGLE_SEAL_DELAY_SEC : {-1, SINGLE_SEAL_DELAY_SEC} ]

\* Seals the classifier predicts in the specification of a seal that no
\* catalog jutsu uses: ne (one of config.SEAL_NAMES) and hitsuji.
UnknownSeals == {"ne", "hitsuji"}

\* Paths a model is saved to and loaded from: config.MODEL_PATH and another.
Paths == {"seal_classifier.pkl", "test_model.pkl"}

\* The label arrays y a model is trained on, as np.unique(y): the classes_ of
\* the fitted forest.
TrainingLabels == { <<"hitsuji">>, <<"tori">>, <<"hitsuji", "tori">> }

\* Confidences predict_proba can give the best class (percent).
ProbaValues == {50, 100}

\* The frames of the scenario in which hitsuji is performed again after
\* chidori: ushi, tori x2, hitsuji x3 (chidori), none x3, hitsuji x3, none x2.
EncoreFrames ==
    << "ushi", "tori", "tori", "hitsuji", "hitsuji", "hitsuji", None, None, None,
       "hitsuji", "hitsuji", "hitsuji", None, None >>

\* The frames of the fireball scenario: mi x5, none x3, hitsuji x5, none x3,
\* tora x5 (tests/test_sequence_tracker.py feeds the same shape).
FireballFrames ==
    << "mi", "mi", "mi", "mi", "mi", None, None, None,
       "hitsuji", "hitsuji", "hitsuji", "hitsuji", "hitsuji", None, None, None,
       "tora", "tora", "tora", "tora", "tora" >>

\* Longest confirmed and target lists _count_matching_prefix is applied to.
MaxPrefix == 3

\* The seals of the lists _count_matching_prefix is applied to.
PrefixSeals == {"hitsuji", "tori"}

\* All lists of at most MaxPrefix of those seals.
PrefixLists == UNION { [1..n -> PrefixSeals] : n \in 0..MaxPrefix }

\* The classes of the model file the main window loads (np.unique order).
WindowLabels == <<"hitsuji">>

\* The entries of the jutsu dropdown picked in the main window: entry 0
\* ("Select Jutsu", no jutsu) and entry 2 (kage_bunshin).
ComboIndexes == {0, 2}

\* The wall clock (ticks) stops the frames of the main window here: an
\* effect started one single-seal delay into the session has ended by then.
MaxWindowTime == 10

\* Wall-clock gaps between two frames of the main window: a steady frame
\* rate, one single-seal delay, and a stall longer than the effect lasts.
WindowGaps == {0, SINGLE_SEAL_DELAY_SEC, EFFECT_DURATION + 1}

\* ------------------------------------------------------------------- state

VARIABLES
    config,                 \* the module config: the attributes the tracker reads
    window,                 \* self._window: deque(maxlen=SEAL_HOLD_FRAMES)
    last_confirmed,         \* self._last_confirmed
    sequence,               \* self._sequence
    last_seal_time,         \* self._last_seal_time
    pending_single_jutsu,   \* self._pending_single_jutsu
    pending_single_time,    \* self._pending_single_time
    matched_jutsu,          \* self._matched_jutsu
    now,                    \* the wall clock, as last read by time.time()
    state,                  \* the TrackerState the last update returned
                            \* (blank after reset, which returns nothing)
    call,                   \* the last call: "init", "update" or "reset"; before
                            \* it "config" (nothing constructed yet), and
                            \* "rejected" when the constructor raised
    inp,                    \* the (seal, confidence) the last update was given
    reports,                \* jutsu_just_matched snapshots since the last new
                            \* confirmation or reset (observer)
    fed,                    \* frames of the fireball scenario fed so far
    clf_model,              \* SealClassifier._model
    clf_classes,            \* SealClassifier._classes
    files,                  \* the model files on disk, by path
    outcome,                \* what the last call of the classifier did
    mode,                   \* MainWindow._mode: "recognize" or "collect"
    selected_jutsu_seals,   \* MainWindow._selected_jutsu_seals
    overlay_seal,           \* MainWindow._overlay_seal
    overlay_confidence,     \* MainWindow._overlay_confidence
    overlay_sequence,       \* MainWindow._overlay_sequence
    overlay_jutsu,          \* MainWindow._overlay_jutsu (a display name)
    overlay_jutsu_element,  \* MainWindow._overlay_jutsu_element
    overlay_jutsu_time,     \* MainWindow._overlay_jutsu_time
    confirm_flash_frames,   \* MainWindow._confirm_flash_frames
    active_effect,          \* EffectOverlay._active_effect
    effect_start,           \* EffectOverlay._effect_start
    cards,                  \* SealStrip._cards: the state of each card
    completed,              \* what _count_matching_prefix returned last
    drawn                   \* what the last frame showed: the banner text and
                            \* the effect rendered (observer)

vars == << config, window, last_confirmed, sequence, last_seal_time,
           pending_single_jutsu, pending_single_time, matched_jutsu,
           now, state, call, inp, reports, fed,
           clf_model, clf_classes, files, outcome,
           mode, selected_jutsu_seals, overlay_seal, overlay_confidence,
           overlay_sequence, overlay_jutsu, overlay_jutsu_element,
           overlay_jutsu_time, confirm_flash_frames, active_effect,
           effect_start, cards, completed, drawn >>

\* The main window, its effect overlay and its seal strip.
guivars == << mode, selected_jutsu_seals, overlay_seal, overlay_confidence,
             overlay_sequence, overlay_jutsu, overlay_jutsu_element,
             overlay_jutsu_time, confirm_flash_frames, active_effect,
             effect_start, cards, completed, drawn >>

\* The classifier and the disk.
clfvars == << clf_model, clf_classes, files, outcome >>

\* The tracker, its configuration and its observers.
trackervars == << config, window, last_confirmed, sequence, last_seal_time,
                  pending_single_jutsu, pending_single_time, matched_jutsu,
                  now, state, call, inp, reports, fed >>

\* TrackerState(): the dataclass defaults.
TrackerState ==
    [ current_seal        |-> None,
      current_confidence  |-> 0,
      confirmed_sequence  |-> <<>>,
      matched_jutsu       |-> NoJutsu,
      seal_just_confirmed |-> FALSE,
      jutsu_just_matched  |-> FALSE ]

\* ----------------------------------------------------------------- helpers

\* Mutant of TimedOut: the single-seal delay is taken for the idle timeout.
TimedOutEarly(seq, t, lst) ==
    seq # <<>> /\ (t - lst) > config.SINGLE_SEAL_DELAY_SEC

\* if self._sequence and
\* (now - self._last_seal_time) > config.SEQUENCE_TIMEOUT_SEC
TimedOut(seq, t, lst) ==
    seq # <<>> /\ (t - lst) > config.SEQUENCE_TIMEOUT_SEC

\* Mutant of WindowAfterIdleCheck: the idle timeout also clears the window.
WindowClearedOnTimeout(w, timeout) == IF timeout THEN <<>> ELSE w

\* self._window after the idle-timeout check, which clears the sequence,
\* _last_confirmed and the pending jutsu and leaves the window alone
WindowAfterIdleCheck(w, timeout) == w

\* Mutant of ApplyThreshold: the confidence is not looked at.
ApplyThresholdOff(seal, confidence) == seal

\* if seal is not None and confidence < CONFIDENCE_THRESHOLD: seal = None
ApplyThreshold(seal, confidence) ==
    IF seal # None /\ confidence < CONFIDENCE_THRESHOLD THEN None ELSE seal

\* Mutant of WindowAppend: a full window drops the new entry, not the oldest.
WindowAppendKeepsOldest(w, s) ==
    IF Len(w) < config.SEAL_HOLD_FRAMES THEN Append(w, s) ELSE w

\* self._window.append(seal) on a deque(maxlen=config.SEAL_HOLD_FRAMES): the
\* oldest entry is dropped from a full window, and a window of capacity 0
\* stays empty
WindowAppend(w, s) ==
    IF Len(w) < config.SEAL_HOLD_FRAMES THEN Append(w, s)
    ELSE IF w = <<>> THEN <<>>
    ELSE Append(Tail(w), s)

\* counts[s]: occurrences of s in the window
Count(w, s) == Cardinality({i \in DOMAIN w : w[i] = s})

\* position at which key s was inserted into the counts dict
FirstIndex(w, s) == CHOOSE i \in DOMAIN w : w[i] = s /\ \A j \in 1..(i - 1) : w[j] # s

\* max(counts, key=counts.get): the first-inserted key among those of highest count
BestKey(w) ==
    LET keys == {w[i] : i \in DOMAIN w} \ {None}
    IN  CHOOSE s \in keys :
            \A u \in keys :
                \/ Count(w, s) > Count(w, u)
                \/ Count(w, s) = Count(w, u) /\ FirstIndex(w, s) <= FirstIndex(w, u)

\* Mutant of MajorityVote: half the window is enough (>= for >).
MajorityVoteHalf(w) ==
    IF {w[i] : i \in DOMAIN w} \ {None} = {} THEN None
    ELSE IF Count(w, BestKey(w)) >= Len(w) \div 2 THEN BestKey(w)
    ELSE None

\* Mutant of MajorityVote: the seal of highest count wins, majority or not.
MajorityVotePlurality(w) ==
    IF {w[i] : i \in DOMAIN w} \ {None} = {} THEN None ELSE BestKey(w)

\* Mutant of MajorityVote: more than half the capacity of the window is
\* required, not more than half its current length.
MajorityVoteCapacity(w) ==
    IF {w[i] : i \in DOMAIN w} \ {None} = {} THEN None
    ELSE IF Count(w, BestKey(w)) > SEAL_HOLD_FRAMES \div 2 THEN BestKey(w)
    ELSE None

\* SequenceTracker._majority_vote
MajorityVote(w) ==
    IF {w[i] : i \in DOMAIN w} \ {None} = {} THEN None
    ELSE IF Count(w, BestKey(w)) > Len(w) \div 2 THEN BestKey(w)
    ELSE None

\* Mutant of SuffixMatches: only the lengths are compared.
SuffixMatchesLength(seq, seals) == Len(seals) <= Len(seq)

\* self._sequence[-seq_len:] == jutsu.seals, guarded by seq_len <= len(self._sequence)
SuffixMatches(seq, seals) ==
    /\ Len(seals) <= Len(seq)
    /\ SubSeq(seq, Len(seq) - Len(seals) + 1, Len(seq)) = seals

\* the loop of _match_jutsu over catalog[i..], carrying best
RECURSIVE MatchFrom(_, _, _, _)
MatchFrom(catalog, seq, i, best) ==
    IF i > Len(catalog) THEN best
    ELSE LET jutsu == catalog[i]
             take  == /\ SuffixMatches(seq, jutsu.seals)
                      /\ (best = NoJutsu \/ Len(jutsu.seals) > Len(best.seals))
         IN  MatchFrom(catalog, seq, i + 1, IF take THEN jutsu ELSE best)

\* Mutant of MatchIn: the first catalog entry that matches wins.
MatchInFirst(catalog, seq) ==
    LET hits == {i \in DOMAIN catalog : SuffixMatches(seq, catalog[i].seals)}
    IN  IF hits = {} THEN NoJutsu
        ELSE catalog[CHOOSE i \in hits : \A j \in hits : i <= j]

\* SequenceTracker._match_jutsu over a given catalog
MatchIn(catalog, seq) == MatchFrom(catalog, seq, 1, NoJutsu)

\* SequenceTracker._match_jutsu
MatchJutsu(seq) == MatchIn(JUTSU_LIST, seq)

\* stable_seal is not None and stable_seal != self._last_confirmed
NewlyConfirmed(stable, lc) == stable # None /\ stable # lc

\* Mutant of PendingAfterConfirm: a confirmation without a one-seal match
\* leaves the pending jutsu armed.
PendingKeptOnConfirm(p, matched) ==
    IF matched # NoJutsu /\ Len(matched.seals) = 1 THEN matched ELSE p

\* Mutant of PendingAfterConfirm: a match of several seals leaves the pending
\* jutsu armed.
PendingKeptOnLongMatch(p, matched) ==
    IF matched = NoJutsu THEN NoJutsu
    ELSE IF Len(matched.seals) = 1 THEN matched ELSE p

\* Mutant of PendingAfterConfirm: once a jutsu of several seals was matched,
\* a one-seal jutsu is not armed any more.
PendingSuppressedAfterLong(p, matched) ==
    IF /\ matched # NoJutsu
       /\ Len(matched.seals) = 1
       /\ ~(matched_jutsu # NoJutsu /\ Len(matched_jutsu.seals) > 1)
    THEN matched ELSE NoJutsu

\* self._pending_single_jutsu after the confirmation branch, given its value p
\* before and the match: cleared first, then armed when the match has one seal
PendingAfterConfirm(p, matched) ==
    IF matched # NoJutsu /\ Len(matched.seals) = 1 THEN matched ELSE NoJutsu

\* Mutant of PendingDue: the delay is not waited for.
PendingDueNoDelay(p, t, pt) == p # NoJutsu

\* Mutant of PendingDue: the delay must be exceeded (> for >=).
PendingDueStrict(p, t, pt) ==
    p # NoJutsu /\ (t - pt) > config.SINGLE_SEAL_DELAY_SEC

\* _pending_single_jutsu is not None and
\* (now - _pending_single_time) >= config.SINGLE_SEAL_DELAY_SEC
PendingDue(p, t, pt) ==
    p # NoJutsu /\ (t - pt) >= config.SINGLE_SEAL_DELAY_SEC

\* Mutant of PendingAfterReport: the reported jutsu stays pending.
PendingKeptAfterReport(p) == p

\* self._pending_single_jutsu = None after a deferred match was reported
PendingAfterReport(p) == NoJutsu

\* Mutant of SnapshotMatched: the snapshot names a jutsu only in the update
\* that reports it.
SnapshotMatchedOnce(m, just) == IF just THEN m ELSE NoJutsu

\* matched_jutsu=self._matched_jutsu in the snapshot, whether or not this
\* update reported a match
SnapshotMatched(m, just) == m

\* self._window.clear() in reset
ResetWindow(w) == <<>>

\* Mutant of ResetPending: reset leaves the pending jutsu armed.
ResetPendingKept(p) == p

\* self._pending_single_jutsu = None in reset
ResetPending(p) == NoJutsu

\* Mutant of ResetMatched: reset keeps the matched jutsu.
ResetMatchedKept(m) == m

\* self._matched_jutsu = None in reset
ResetMatched(m) == NoJutsu

\* SealClassifier.is_loaded
IsLoaded(model) == model # NoModel

\* Mutant of PredictOutcomes: without a model, predict returns no label with
\* confidence 0 instead of raising.
PredictOutcomesDefault(model, classes) ==
    IF model = NoModel
    THEN { [NoOutcome EXCEPT !.op = "predict"] }
    ELSE { [NoOutcome EXCEPT !.op = "predict", !.ok = TRUE,
                             !.label = classes[i], !.confidence = c] :
               i \in DOMAIN classes, c \in {v \in ProbaValues : v * Len(classes) >= 100} }

\* SealClassifier.predict: what the call can do. Without a model it raises
\* RuntimeError; otherwise it returns the class of highest probability (one
\* of self._classes) and that probability, which is at least 1 / len(classes)
PredictOutcomes(model, classes) ==
    IF model = NoModel
    THEN { [NoOutcome EXCEPT !.op = "predict", !.raised = "RuntimeError"] }
    ELSE { [NoOutcome EXCEPT !.op = "predict", !.ok = TRUE,
                             !.label = classes[i], !.confidence = c] :
               i \in DOMAIN classes, c \in {v \in ProbaValues : v * Len(classes) >= 100} }

\* The inner loop of _count_matching_prefix, from position i of the suffix
\* (counted from 1): match_len when the loop ends or breaks.
RECURSIVE MatchLen(_, _, _)
MatchLen(suffix, target, i) ==
    IF i > Len(suffix) THEN i - 1
    ELSE IF i <= Len(target) /\ suffix[i] = target[i]
         THEN MatchLen(suffix, target, i + 1)
         ELSE i - 1

\* The outer loop of _count_matching_prefix, from the given start (counted
\* from 0, as in the code).
RECURSIVE CountFrom(_, _, _)
CountFrom(confirmed, target, start) ==
    IF start >= Len(confirmed) THEN 0
    ELSE LET suffix    == SubSeq(confirmed, start + 1, Len(confirmed))
             match_len == MatchLen(suffix, target, 1)
         IN  IF match_len > 0 /\ start + match_len = Len(confirmed)
             THEN match_len
             ELSE CountFrom(confirmed, target, start + 1)

\* Mutant of CountMatchingPrefix: only the whole confirmed list is compared.
CountWholeList(confirmed, target) ==
    IF confirmed = <<>> \/ target = <<>> THEN 0
    ELSE MatchLen(confirmed, target, 1)

\* MainWindow._count_matching_prefix(confirmed, target)
CountMatchingPrefix(confirmed, target) ==
    IF confirmed = <<>> \/ target = <<>> THEN 0
    ELSE CountFrom(confirmed, target, 0)

\* SealStrip.update_progress(n): the cards before n are done, card n is
\* active, the others pending.
UpdateProgress(cs, n) ==
    [i \in DOMAIN cs |-> IF i - 1 < n THEN "done"
                         ELSE IF i - 1 = n THEN "active" ELSE "pending"]

\* SealStrip.reset(): every card pending.
StripReset(cs) == [i \in DOMAIN cs |-> "pending"]

\* -------------------------------------------------------------------- Init

\* No update was made yet: the clock, the blank snapshot and the observers.
NotCalledYet ==
    /\ now = 0
    /\ state = TrackerState
    /\ inp = [seal |-> None, confidence |-> 0]
    /\ reports = 0
    /\ fed = 0

\* The fields SequenceTracker.__init__ assigns (time.time() has not been
\* read yet; the clock starts at 0).
Constructed ==
    /\ window = <<>>
    /\ last_confirmed = None
    /\ sequence = <<>>
    /\ last_seal_time = 0
    /\ pending_single_jutsu = NoJutsu
    /\ pending_single_time = 0
    /\ matched_jutsu = NoJutsu

\* A tracker constructed under the shipped configuration.
\* SealClassifier.__init__, with no model file on disk.
NewClassifier ==
    /\ clf_model = NoModel
    /\ clf_classes = <<>>
    /\ files = [p \in Paths |-> Absent]
    /\ outcome = NoOutcome

\* The fields MainWindow.__init__, EffectOverlay.__init__ and
\* SealStrip.__init__ assign; no frame was drawn and no prefix counted yet.
NewWindow ==
    /\ mode = "recognize"
    /\ selected_jutsu_seals = <<>>
    /\ overlay_seal = None
    /\ overlay_confidence = 0
    /\ overlay_sequence = <<>>
    /\ overlay_jutsu = None
    /\ overlay_jutsu_element = None
    /\ overlay_jutsu_time = 0
    /\ confirm_flash_frames = 0
    /\ active_effect = None
    /\ effect_start = 0
    /\ cards = <<>>
    /\ completed = NotCounted
    /\ drawn = NothingDrawn

\* A tracker constructed under the shipped configuration, and a classifier.
Init ==
    /\ config = ShippedConfig
    /\ call = "init"
    /\ Constructed
    /\ NotCalledYet
    /\ NewClassifier
    /\ NewWindow

\* ----------------------------------------------------------------- actions

\* The body of SequenceTracker.update after the timeout check, the threshold,
\* the window append and the majority vote: seq1, lc1, p1 are _sequence,
\* _last_confirmed and _pending_single_jutsu after the timeout check, s the
\* thresholded seal, w1 the window, stable the vote and matched the result of
\* _match_jutsu on a new confirmation.
UpdateTail(seal, confidence, t, seq1, lc1, p1, s, w1, stable, newc, seq2, matched) ==
    LET lc2     == IF newc THEN stable
                   ELSE IF stable = None THEN None ELSE lc1
        armed   == newc /\ matched # NoJutsu /\ Len(matched.seals) = 1
        direct  == newc /\ matched # NoJutsu /\ Len(matched.seals) # 1
        p2      == IF newc THEN PendingAfterConfirm(p1, matched) ELSE p1
        pt2     == IF armed THEN t ELSE pending_single_time
        due     == PendingDue(p2, t, pt2)
        m2      == IF due THEN p2
                   ELSE IF direct THEN matched ELSE matched_jutsu
        just    == direct \/ due
    IN  /\ now' = t
        /\ window' = w1
        /\ sequence' = seq2
        /\ last_confirmed' = lc2
        /\ last_seal_time' = IF newc THEN t ELSE last_seal_time
        /\ pending_single_jutsu' = IF due THEN PendingAfterReport(p2) ELSE p2
        /\ pending_single_time' = pt2
        /\ matched_jutsu' = m2
        /\ state' = [ current_seal        |-> stable,
                      current_confidence  |-> IF stable = s THEN confidence ELSE 0,
                      confirmed_sequence  |-> seq2,
                      matched_jutsu       |-> SnapshotMatched(m2, just),
                      seal_just_confirmed |-> newc,
                      jutsu_just_matched  |-> just ]
        /\ call' = "update"
        /\ inp' = [seal |-> seal, confidence |-> confidence]
        /\ config' = config
        /\ UNCHANGED clfvars
        /\ reports' = (IF newc THEN 0 ELSE reports) + (IF just THEN 1 ELSE 0)

\* SequenceTracker.update(seal, confidence), with time.time() returning t.
\* Each local of the method is bound once, in the order the code computes it.
Update(seal, confidence, t) ==
    \E timeout \in {TimedOut(sequence, t, last_seal_time)} :
    \E s \in {ApplyThreshold(seal, confidence)} :
    \E w1 \in {WindowAppend(WindowAfterIdleCheck(window, timeout), s)} :
    \E stable \in {MajorityVote(w1)} :
    \E seq1 \in {IF timeout THEN <<>> ELSE sequence} :
    \E lc1 \in {IF timeout THEN None ELSE last_confirmed} :
    \E p1 \in {IF timeout THEN NoJutsu ELSE pending_single_jutsu} :
    \E newc \in {NewlyConfirmed(stable, lc1)} :
    \E seq2 \in {IF newc THEN Append(seq1, stable) ELSE seq1} :
    \E matched \in {IF newc THEN MatchJutsu(seq2) ELSE NoJutsu} :
        UpdateTail(seal, confidence, t, seq1, lc1, p1, s, w1, stable, newc, seq2, matched)

\* An update that does not take the confirmed sequence beyond MaxSeq seals.
UpdateAt(seal, confidence, t) ==
    /\ Update(seal, confidence, t)
    /\ Len(sequence') <= MaxSeq

\* The wall-clock readings time.time() can return in the next call.
Clock == {t \in {now + g : g \in Gaps} : t <= MaxTime}

\* One frame with a classifier prediction (main_window._on_frame, hands found).
UpdateSeal ==
    \E seal \in InputSeals, confidence \in InputConfidences, t \in Clock :
        /\ UpdateAt(seal, confidence, t)
        /\ UNCHANGED fed
        /\ UNCHANGED guivars

\* One frame with no hands: update(None, 0.0).
UpdateNone ==
    \E t \in Clock :
        /\ UpdateAt(None, 0, t)
        /\ UNCHANGED fed
        /\ UNCHANGED guivars

\* One frame of a session in which the seals of chidori are performed, each
\* predicted with confidence 0.9, at a steady frame rate or after one delay.
ChidoriFrame ==
    \E seal \in ChidoriSeals, t \in Clock :
        /\ t - now <= SINGLE_SEAL_DELAY_SEC
        /\ UpdateAt(seal, 90, t)
        /\ UNCHANGED fed
        /\ UNCHANGED guivars

\* One frame with a prediction the classifier is not confident of.
QuietFrame ==
    \E seal \in InputSeals, confidence \in QuietConfidences, t \in Clock :
        /\ UpdateAt(seal, confidence, t)
        /\ UNCHANGED fed
        /\ UNCHANGED guivars

\* One frame of a session in which ne and hitsuji are performed, each
\* predicted with confidence 0.9, at a steady frame rate or after one delay.
UnknownFrame ==
    \E seal \in UnknownSeals, t \in Clock :
        /\ t - now <= SINGLE_SEAL_DELAY_SEC
        /\ UpdateAt(seal, 90, t)
        /\ UNCHANGED fed
        /\ UNCHANGED guivars

\* SequenceTracker() under the configuration in force: deque(maxlen=n) raises
\* ValueError for a negative n; nothing else is looked at.
Construct ==
    /\ call = "config"
    /\ call' = IF config.SEAL_HOLD_FRAMES < 0 THEN "rejected" ELSE "init"
    /\ UNCHANGED << config, window, last_confirmed, sequence, last_seal_time,
                    pending_single_jutsu, pending_single_time, matched_jutsu,
                    now, state, inp, reports, fed >>
    /\ UNCHANGED clfvars
    /\ UNCHANGED guivars

\* One frame fed to a tracker that was constructed: hitsuji predicted with
\* confidence 0.9, or no hands.
ConfigFrame ==
    /\ call \in {"init", "update"}
    /\ \E seal \in {"hitsuji", None}, t \in Clock :
        /\ UpdateAt(seal, IF seal = None THEN 0 ELSE 90, t)
        /\ UNCHANGED fed
        /\ UNCHANGED guivars

\* SealClassifier(): another classifier object; the files stay.
Classifier ==
    /\ clf_model' = NoModel
    /\ clf_classes' = <<>>
    /\ outcome' = NoOutcome
    /\ UNCHANGED files
    /\ UNCHANGED trackervars
    /\ UNCHANGED guivars

\* SealClassifier.train(X, y): fits a forest and keeps its classes_.
Train ==
    /\ \E labels \in TrainingLabels :
        /\ clf_model' = [classes_ |-> labels]
        /\ clf_classes' = labels
    /\ outcome' = [NoOutcome EXCEPT !.op = "train", !.ok = TRUE]
    /\ UNCHANGED files
    /\ UNCHANGED trackervars
    /\ UNCHANGED guivars

\* SealClassifier.predict(features)
Predict ==
    /\ outcome' \in PredictOutcomes(clf_model, clf_classes)
    /\ UNCHANGED << clf_model, clf_classes, files >>
    /\ UNCHANGED trackervars
    /\ UNCHANGED guivars

\* SealClassifier.save(path): raises RuntimeError without a model, else
\* dumps the model and the classes to the path.
Save ==
    /\ \E path \in Paths :
        IF clf_model = NoModel
        THEN /\ outcome' = [NoOutcome EXCEPT !.op = "save", !.path = path,
                                             !.raised = "RuntimeError"]
             /\ UNCHANGED files
        ELSE /\ outcome' = [NoOutcome EXCEPT !.op = "save", !.path = path, !.ok = TRUE]
             /\ files' = [files EXCEPT ![path] =
                              [model |-> clf_model, classes |-> clf_classes]]
    /\ UNCHANGED << clf_model, clf_classes >>
    /\ UNCHANGED trackervars
    /\ UNCHANGED guivars

\* SealClassifier.load(path): returns False when the path does not exist,
\* else takes the model and the classes from the file and returns True.
Load ==
    /\ \E path \in Paths :
        IF files[path] = Absent
        THEN /\ outcome' = [NoOutcome EXCEPT !.op = "load", !.path = path]
             /\ UNCHANGED << clf_model, clf_classes >>
        ELSE /\ outcome' = [NoOutcome EXCEPT !.op = "load", !.path = path, !.ok = TRUE]
             /\ clf_model' = files[path].model
             /\ clf_classes' = files[path].classes
    /\ UNCHANGED files
    /\ UNCHANGED trackervars
    /\ UNCHANGED guivars

\* One frame of a burst in which the predictions flicker between the seals of
\* chidori and no hands, all within one tick of the clock.
FlickerFrame ==
    \E seal \in ChidoriSeals \cup {None} :
        /\ UpdateAt(seal, IF seal = None THEN 0 ELSE 90, now)
        /\ UNCHANGED fed
        /\ UNCHANGED guivars

\* The next frame of the scenario of chidori followed by a second hitsuji,
\* fed within the idle timeout.
EncoreFrame ==
    /\ fed < Len(EncoreFrames)
    /\ \E t \in Clock :
        /\ ~TimedOut(sequence, t, last_seal_time)
        /\ Update(EncoreFrames[fed + 1],
                  IF EncoreFrames[fed + 1] = None THEN 0 ELSE 90, t)
        /\ Len(sequence') <= MaxEncore
    /\ fed' = fed + 1
    /\ UNCHANGED guivars

\* The next frame of the fireball scenario, fed within the idle timeout.
FireballFrame ==
    /\ fed < Len(FireballFrames)
    /\ \E t \in Clock :
        /\ ~TimedOut(sequence, t, last_seal_time)
        /\ UpdateAt(FireballFrames[fed + 1],
                    IF FireballFrames[fed + 1] = None THEN 0 ELSE 90, t)
    /\ fed' = fed + 1
    /\ UNCHANGED guivars

\* SequenceTracker.reset()
TrackerReset ==
    /\ window' = ResetWindow(window)
    /\ last_confirmed' = None
    /\ sequence' = <<>>
    /\ pending_single_jutsu' = ResetPending(pending_single_jutsu)
    /\ matched_jutsu' = ResetMatched(matched_jutsu)
    /\ state' = TrackerState
    /\ call' = "reset"
    /\ reports' = 0
    /\ UNCHANGED << config, last_seal_time, pending_single_time, now, inp, fed >>
    /\ UNCHANGED clfvars

\* A reset of the tracker alone (tests/test_sequence_tracker.py).
Reset ==
    /\ TrackerReset
    /\ UNCHANGED guivars

Next == UpdateSeal \/ UpdateNone \/ Reset

Spec == Init /\ [][Next]_vars

\* A session performing the seals of chidori.
NextChidori == ChidoriFrame \/ Reset

SpecChidori == Init /\ [][NextChidori]_vars

\* The fireball scenario, from a freshly constructed tracker.
NextFireball == FireballFrame

SpecFireball == Init /\ [][NextFireball]_vars

\* A session, from a freshly constructed tracker, in which no frame carries a
\* confident prediction: every input is none or below the threshold.
NextQuiet == QuietFrame \/ UpdateNone

SpecQuiet == Init /\ [][NextQuiet]_vars

\* A session performing a seal that occurs in no catalog jutsu.
NextUnknown == UnknownFrame \/ Reset

SpecUnknown == Init /\ [][NextUnknown]_vars

\* Before construction: some configuration is in force.
InitConfig ==
    /\ config \in Configs
    /\ call = "config"
    /\ Constructed
    /\ NotCalledYet
    /\ NewClassifier
    /\ NewWindow

\* Constructing a tracker under any of the configurations and running it.
NextConfig == Construct \/ ConfigFrame

SpecConfig == InitConfig /\ [][NextConfig]_vars

\* Classifier objects being made, trained, saved, loaded and asked.
NextClassifier == Classifier \/ Train \/ Predict \/ Save \/ Load

SpecClassifier == Init /\ [][NextClassifier]_vars

\* Flickering predictions, with resets.
NextFlicker == FlickerFrame \/ Reset

SpecFlicker == Init /\ [][NextFlicker]_vars

\* Chidori followed by a second hitsuji, from a freshly constructed tracker.
NextEncore == EncoreFrame

SpecEncore == Init /\ [][NextEncore]_vars

\* The wall-clock readings time.time() can return in the next frame of the
\* main window.
WindowClock == {t \in {now + g : g \in WindowGaps} : t <= MaxWindowTime}

\* The branch MainWindow._on_frame takes: the recognition pipeline, the
\* no-hands update, or neither.
FramePath(num_hands) ==
    IF mode = "recognize" /\ IsLoaded(clf_model) /\ num_hands > 0 THEN "predict"
    ELSE IF mode = "recognize" /\ num_hands = 0 THEN "empty"
    ELSE "idle"

\* What MainWindow._on_frame does with the snapshot snap the tracker returned
\* on the given path, then _draw_overlay (in recognize mode) and
\* EffectOverlay.render, every time.time() returning t.
WindowAfterFrame(path, snap, t) ==
    LET predicted == path = "predict"
        matched   == predicted /\ snap.jutsu_just_matched
                               /\ snap.matched_jutsu # NoJutsu
        jutsu     == snap.matched_jutsu.name
        oj1       == IF matched THEN Display(jutsu) ELSE overlay_jutsu
        oe1       == IF matched THEN Element(jutsu) ELSE overlay_jutsu_element
        ojt1      == IF matched THEN t ELSE overlay_jutsu_time
        ae1       == IF matched THEN Stem(EffectAsset(jutsu)) ELSE active_effect
        es1       == IF matched THEN t ELSE effect_start
        fl1       == IF predicted /\ snap.seal_just_confirmed THEN FLASH_FRAMES
                     ELSE confirm_flash_frames
        count     == predicted /\ selected_jutsu_seals # <<>>
        n         == CountMatchingPrefix(snap.confirmed_sequence,
                                         selected_jutsu_seals)
        draw      == mode = "recognize"
        expired   == draw /\ oj1 # None /\ t - ojt1 > EFFECT_DURATION
        oj2       == IF expired THEN None ELSE oj1
        ae2       == IF ae1 # None /\ t - es1 > EFFECT_DURATION THEN None ELSE ae1
    IN  /\ overlay_seal' = IF predicted THEN snap.current_seal
                           ELSE IF path = "empty" THEN None ELSE overlay_seal
        /\ overlay_confidence' = IF predicted THEN snap.current_confidence
                                 ELSE IF path = "empty" THEN 0
                                 ELSE overlay_confidence
        /\ overlay_sequence' = IF path = "idle" THEN overlay_sequence
                               ELSE snap.confirmed_sequence
        /\ overlay_jutsu' = oj2
        /\ overlay_jutsu_element' = IF expired THEN None ELSE oe1
        /\ overlay_jutsu_time' = ojt1
        /\ confirm_flash_frames' = IF draw /\ fl1 > 0 THEN fl1 - 1 ELSE fl1
        /\ active_effect' = ae2
        /\ effect_start' = es1
        /\ completed' = IF count THEN n ELSE completed
        /\ cards' = IF count THEN UpdateProgress(cards, n) ELSE cards
        /\ drawn' = [path   |-> path,
                     banner |-> IF draw THEN oj2 ELSE None,
                     effect |-> ae2]
        /\ UNCHANGED << mode, selected_jutsu_seals >>

\* MainWindow._on_frame(frame, result), with result.num_hands hands in the
\* frame and the clock at t.
OnFrame ==
    \E num_hands \in {0, 1}, t \in WindowClock :
    \E path \in {FramePath(num_hands)} :
        /\ \/ /\ path = "predict"
              /\ \E o \in PredictOutcomes(clf_model, clf_classes) :
                    Update(o.label, o.confidence, t)
           \/ /\ path = "empty"
              /\ Update(None, 0, t)
           \/ /\ path = "idle"
              /\ now' = t
              /\ UNCHANGED << config, window, last_confirmed, sequence,
                              last_seal_time, pending_single_jutsu,
                              pending_single_time, matched_jutsu, state, call,
                              inp, reports >>
              /\ UNCHANGED clfvars
        /\ Len(sequence') <= MaxSeq
        /\ UNCHANGED fed
        /\ WindowAfterFrame(path, state', t)

\* MainWindow._on_reset(): the Reset button or the R key.
OnReset ==
    /\ overlay_seal' = None
    /\ overlay_confidence' = 0
    /\ overlay_jutsu' = None
    /\ overlay_jutsu_element' = None
    /\ overlay_jutsu_time' = 0
    /\ overlay_sequence' = <<>>
    /\ confirm_flash_frames' = 0
    /\ cards' = StripReset(cards)
    /\ TrackerReset
    /\ UNCHANGED << mode, selected_jutsu_seals, active_effect, effect_start,
                    completed, drawn >>

\* MainWindow._set_mode(mode): the Collect Data and Recognize buttons.
SetMode ==
    /\ \E md \in {"recognize", "collect"} : mode' = md
    /\ UNCHANGED << selected_jutsu_seals, overlay_seal, overlay_confidence,
                    overlay_sequence, overlay_jutsu, overlay_jutsu_element,
                    overlay_jutsu_time, confirm_flash_frames, active_effect,
                    effect_start, cards, completed, drawn >>
    /\ UNCHANGED trackervars
    /\ UNCHANGED clfvars

\* MainWindow._on_jutsu_combo_changed(index): entry 0 selects no jutsu, entry
\* i the i-th jutsu of the catalog; the strip gets one pending card per seal.
OnJutsuComboChanged ==
    /\ \E index \in ComboIndexes :
        /\ selected_jutsu_seals' =
              IF index = 0 THEN <<>> ELSE JUTSU_LIST[index].seals
        /\ cards' = [i \in DOMAIN selected_jutsu_seals' |-> "pending"]
    /\ UNCHANGED << mode, overlay_seal, overlay_confidence, overlay_sequence,
                    overlay_jutsu, overlay_jutsu_element, overlay_jutsu_time,
                    confirm_flash_frames, active_effect, effect_start,
                    completed, drawn >>
    /\ UNCHANGED trackervars
    /\ UNCHANGED clfvars

\* The main window after MainWindow.__init__: the classifier has loaded the
\* model file at config.MODEL_PATH if there was one.
InitWindow ==
    /\ config = ShippedConfig
    /\ call = "init"
    /\ Constructed
    /\ NotCalledYet
    /\ NewWindow
    /\ \E there \in BOOLEAN :
        /\ files = [p \in Paths |->
                      IF there /\ p = MODEL_PATH
                      THEN [model |-> [classes_ |-> WindowLabels],
                            classes |-> WindowLabels]
                      ELSE Absent]
        /\ clf_model = IF there THEN files[MODEL_PATH].model ELSE NoModel
        /\ clf_classes = IF there THEN files[MODEL_PATH].classes ELSE <<>>
        /\ outcome = [NoOutcome EXCEPT !.op = "load", !.path = MODEL_PATH,
                                       !.ok = there]

\* The main window receiving frames and clicks.
NextWindow == OnFrame \/ OnReset \/ SetMode \/ OnJutsuComboChanged

SpecWindow == InitWindow /\ [][NextWindow]_vars

\* _count_matching_prefix called with the confirmed sequence shown and the
\* seals of the selected jutsu.
PrefixCall ==
    /\ completed' = CountMatchingPrefix(overlay_sequence, selected_jutsu_seals)
    /\ UNCHANGED << mode, selected_jutsu_seals, overlay_seal, overlay_confidence,
                    overlay_sequence, overlay_jutsu, overlay_jutsu_element,
                    overlay_jutsu_time, confirm_flash_frames, active_effect,
                    effect_start, cards, drawn >>
    /\ UNCHANGED trackervars
    /\ UNCHANGED clfvars

\* A main window whose confirmed sequence and target are any two lists.
InitPrefix ==
    /\ config = ShippedConfig
    /\ call = "init"
    /\ Constructed
    /\ NotCalledYet
    /\ NewClassifier
    /\ mode = "recognize"
    /\ selected_jutsu_seals \in PrefixLists
    /\ overlay_sequence \in PrefixLists
    /\ overlay_seal = None
    /\ overlay_confidence = 0
    /\ overlay_jutsu = None
    /\ overlay_jutsu_element = None
    /\ overlay_jutsu_time = 0
    /\ confirm_flash_frames = 0
    /\ active_effect = None
    /\ effect_start = 0
    /\ cards = [i \in DOMAIN selected_jutsu_seals |-> "pending"]
    /\ completed = NotCounted
    /\ drawn = NothingDrawn

NextPrefix == PrefixCall

SpecPrefix == InitPrefix /\ [][NextPrefix]_vars

\* ------------------------------------------------------------------ claims

\* A jutsu of one seal.
IsSingle(j) == j # NoJutsu /\ Len(j.seals) = 1

\* The input of an update is a seal at or above the confidence threshold.
Passing(i) == i.seal # None /\ i.confidence >= CONFIDENCE_THRESHOLD

\* The catalog entries whose seals end the sequence.
SuffixPatterns(seq) ==
    {i \in DOMAIN JUTSU_LIST : SuffixMatches(seq, JUTSU_LIST[i].seals)}

\* C1 (as claimed): from a freshly constructed or reset tracker (the window
\* holds the k < SEAL_HOLD_FRAMES updates made since), feeding the same seal
\* at or above the threshold again yields it as current_seal, leaves the
\* confirmed sequence holding it exactly once, and reports
\* seal_just_confirmed in the first of these updates only.
C1_Stabilization ==
    [][ ( /\ call' = "update"
          /\ Passing(inp')
          /\ Len(window) < SEAL_HOLD_FRAMES
          /\ \A i \in DOMAIN window : window[i] = inp'.seal )
        => ( /\ state'.current_seal = inp'.seal
             /\ state'.confirmed_sequence = << inp'.seal >>
             /\ (state'.seal_just_confirmed <=> window = <<>>) ) ]_vars

\* C2 (as claimed): while the same seal stays the stable seal over consecutive
\* updates, with no reset in between, no later update confirms it again and
\* the confirmed sequence does not change, whatever the wall-clock time.
C2_DebouncedRepeats ==
    [][ ( /\ call = "update"
          /\ call' = "update"
          /\ state.current_seal # None
          /\ state'.current_seal = state.current_seal )
        => ( /\ ~state'.seal_just_confirmed
             /\ state'.confirmed_sequence = state.confirmed_sequence ) ]_vars

\* C3 (as claimed): when the update after a confirming update is made more
\* than SEQUENCE_TIMEOUT_SEC after it with an input that is none or below
\* the threshold, its snapshot has an empty confirmed_sequence.
C3_IdleTimeout ==
    [][ ( /\ call = "update"
          /\ state.seal_just_confirmed
          /\ call' = "update"
          /\ now' - last_seal_time > SEQUENCE_TIMEOUT_SEC
          /\ ~Passing(inp') )
        => state'.confirmed_sequence = <<>> ]_vars

\* The catalog {A: [x], B: [y, x]} with x = hitsuji and y = tori.
CatalogAB ==
    << [name |-> "A", seals |-> <<"hitsuji">>],
       [name |-> "B", seals |-> <<"tori", "hitsuji">>] >>

\* C4: in an update that confirms a seal, the jutsu selected (reported at
\* once, or armed when it has one seal) is at least as long as every catalog
\* jutsu whose seals end the confirmed sequence; a sequence ending ushi,
\* tori, hitsuji reports chidori and arms nothing; and over the catalog
\* {A: [x], B: [y, x]} a sequence ending y, x selects B.
C4_LongestMatchFirst ==
    (call = "update" /\ state.seal_just_confirmed) =>
        LET selected == IF state.jutsu_just_matched THEN state.matched_jutsu
                        ELSE pending_single_jutsu
        IN  /\ \A i \in SuffixPatterns(sequence) :
                  /\ selected # NoJutsu
                  /\ SuffixMatches(sequence, selected.seals)
                  /\ Len(selected.seals) >= Len(JUTSU_LIST[i].seals)
            /\ SuffixMatches(sequence, <<"ushi", "tori", "hitsuji">>) =>
                  /\ state.jutsu_just_matched
                  /\ state.matched_jutsu.name = "chidori"
                  /\ pending_single_jutsu = NoJutsu
            /\ SuffixMatches(sequence, <<"tori", "hitsuji">>) =>
                  MatchIn(CatalogAB, sequence).name = "B"

\* C4 witness: the update that confirmed hitsuji after ushi and tori, with
\* chidori reported.
C4_Witness ==
    /\ call = "update"
    /\ state.seal_just_confirmed
    /\ sequence = <<"ushi", "tori", "hitsuji">>
    /\ state.jutsu_just_matched
    /\ state.matched_jutsu.name = "chidori"

\* C5: an update that confirms a seal whose only catalog matches have one
\* seal does not report jutsu_just_matched, and a one-seal jutsu is reported
\* only by an update that confirms nothing, made at least
\* SINGLE_SEAL_DELAY_SEC after the last confirmation.
C5_SingleSealDelay ==
    call = "update" =>
        /\ ( /\ state.seal_just_confirmed
             /\ SuffixPatterns(sequence) # {}
             /\ \A i \in SuffixPatterns(sequence) : IsSingle(JUTSU_LIST[i]) )
           => ~state.jutsu_just_matched
        /\ (state.jutsu_just_matched /\ IsSingle(state.matched_jutsu))
           => /\ ~state.seal_just_confirmed
              /\ now - last_seal_time >= SINGLE_SEAL_DELAY_SEC

\* C5 witness: a one-seal jutsu reported exactly one delay after the
\* confirmation that armed it.
C5_Witness ==
    /\ call = "update"
    /\ state.jutsu_just_matched
    /\ IsSingle(state.matched_jutsu)
    /\ now - last_seal_time = SINGLE_SEAL_DELAY_SEC

\* C6 (as claimed): with a one-seal match armed, an update that confirms
\* nothing and is made at least SINGLE_SEAL_DELAY_SEC after the arming reports
\* that jutsu, whatever the wall-clock gap.
C6_AnyGap ==
    [][ ( /\ pending_single_jutsu # NoJutsu
          /\ call' = "update"
          /\ ~state'.seal_just_confirmed
          /\ now' - pending_single_time >= SINGLE_SEAL_DELAY_SEC )
        => ( /\ state'.jutsu_just_matched
             /\ state'.matched_jutsu = pending_single_jutsu ) ]_vars

\* C6 (amended): with a one-seal match armed, an update that confirms nothing
\* and is made at least SINGLE_SEAL_DELAY_SEC and at most SEQUENCE_TIMEOUT_SEC
\* after the arming reports that jutsu as matched_jutsu.
C6_DeferredReport ==
    [][ ( /\ pending_single_jutsu # NoJutsu
          /\ call' = "update"
          /\ ~state'.seal_just_confirmed
          /\ now' - pending_single_time >= SINGLE_SEAL_DELAY_SEC
          /\ now' - pending_single_time <= SEQUENCE_TIMEOUT_SEC )
        => ( /\ state'.jutsu_just_matched
             /\ state'.matched_jutsu = pending_single_jutsu
             /\ pending_single_jutsu' = NoJutsu ) ]_vars

\* C6 witness: a one-seal jutsu reported by an update made after a stall
\* longer than the delay (and within the idle timeout).
C6_Witness ==
    /\ call = "update"
    /\ state.jutsu_just_matched
    /\ IsSingle(state.matched_jutsu)
    /\ ~state.seal_just_confirmed
    /\ now - pending_single_time > SINGLE_SEAL_DELAY_SEC

\* C7: an update that confirms a new seal while a one-seal match is armed and
\* its delay has not elapsed reports no one-seal jutsu, and whatever is armed
\* afterwards was armed by this confirmation (its seal ends the sequence, its
\* arm time is now); and every report of a one-seal jutsu is of the jutsu the
\* most recent confirmation armed, at least the delay after it.
C7_Supersession ==
    [][ call' = "update" =>
        /\ ( /\ pending_single_jutsu # NoJutsu
             /\ state'.seal_just_confirmed
             /\ now' - pending_single_time < SINGLE_SEAL_DELAY_SEC )
           => ( /\ ~(state'.jutsu_just_matched /\ IsSingle(state'.matched_jutsu))
                /\ pending_single_jutsu' # NoJutsu =>
                      /\ SuffixMatches(sequence', pending_single_jutsu'.seals)
                      /\ pending_single_time' = now' )
        /\ (state'.jutsu_just_matched /\ IsSingle(state'.matched_jutsu))
           => ( /\ pending_single_jutsu = state'.matched_jutsu
                /\ SuffixMatches(sequence', state'.matched_jutsu.seals)
                /\ pending_single_time = last_seal_time'
                /\ now' - last_seal_time' >= SINGLE_SEAL_DELAY_SEC ) ]_vars

\* C7 witness: tori confirmed right after hitsuji, before the delay of the
\* armed kage_bunshin elapsed; nothing is armed any more.
C7_Witness ==
    /\ call = "update"
    /\ state.seal_just_confirmed
    /\ sequence = <<"hitsuji", "tori">>
    /\ now < SINGLE_SEAL_DELAY_SEC
    /\ pending_single_jutsu = NoJutsu

C9_Reset ==
    [][ (call = "reset" /\ call' = "update" /\ inp'.seal = None)
        => ( /\ state'.confirmed_sequence = <<>>
             /\ state'.matched_jutsu = NoJutsu
             /\ state'.current_seal = None
             /\ ~state'.jutsu_just_matched ) ]_vars

\* C9 witness: the one update since a reset had input none, and a seal had
\* been confirmed (and a one-seal match armed) before the reset.
C9_Witness ==
    /\ call = "update"
    /\ inp.seal = None
    /\ window = << None >>
    /\ last_seal_time > 0
    /\ pending_single_time > 0

\* C10: in the fireball scenario the snapshot holds [mi] after the mi frames,
\* [mi, hitsuji] after the hitsuji frames and [mi, hitsuji, tora] after the
\* tora frames; the third tora frame, and no other, reports
\* jutsu_just_matched with katon_goukakyu, which is still matched_jutsu in the
\* last snapshot.
C10_FireballScenario ==
    LET fireball == state.matched_jutsu.name = "katon_goukakyu"
    IN  /\ fed = 5 => state.confirmed_sequence = <<"mi">>
        /\ fed = 13 => state.confirmed_sequence = <<"mi", "hitsuji">>
        /\ fed = 19 => state.jutsu_just_matched /\ fireball
        /\ fed \in {17, 18, 20, 21} => ~(state.jutsu_just_matched /\ fireball)
        /\ fed = 21 => /\ state.confirmed_sequence = <<"mi", "hitsuji", "tora">>
                       /\ fireball

\* C10 witness: the whole scenario was fed and the sequence is complete.
C10_Witness ==
    /\ fed = Len(FireballFrames)
    /\ state.confirmed_sequence = <<"mi", "hitsuji", "tora">>
    /\ matched_jutsu.name = "katon_goukakyu"

\* C11 (as claimed): an update whose input confidence is below
\* CONFIDENCE_THRESHOLD does not report seal_just_confirmed and appends
\* nothing to the confirmed sequence (which it leaves alone or, on the idle
\* timeout, empties).
C11_LowConfidence ==
    [][ (call' = "update" /\ inp'.confidence < CONFIDENCE_THRESHOLD)
        => ( /\ ~state'.seal_just_confirmed
             /\ state'.confirmed_sequence \in {sequence, <<>>} ) ]_vars

\* C12: from a freshly constructed tracker, while every input is none or
\* below the confidence threshold, every snapshot has an empty
\* confirmed_sequence and current_seal none (and the tracker's own sequence
\* stays empty).
C12_QuietStaysEmpty ==
    /\ state.confirmed_sequence = <<>>
    /\ state.current_seal = None
    /\ ~state.seal_just_confirmed
    /\ sequence = <<>>

\* C12 witness: a full window of such frames, the last a seal predicted just
\* below the threshold, fed over more than the idle timeout.
C12_Witness ==
    /\ call = "update"
    /\ Len(window) = SEAL_HOLD_FRAMES
    /\ inp.seal # None
    /\ inp.confidence = CONFIDENCE_THRESHOLD - 1
    /\ now > SEQUENCE_TIMEOUT_SEC

InNoJutsu(s) ==
    /\ s # None
    /\ \A i \in DOMAIN JUTSU_LIST :
           \A k \in DOMAIN JUTSU_LIST[i].seals : JUTSU_LIST[i].seals[k] # s

\* C14: an update whose stable seal occurs in no catalog jutsu and is not the
\* last confirmed seal confirms it and appends it (to the sequence, or to the
\* sequence the idle timeout has just emptied), reports no match, leaves
\* nothing armed, and returns its snapshot.
C14_UnknownSeal ==
    [][ ( /\ call' = "update"
          /\ InNoJutsu(state'.current_seal)
          /\ (last_confirmed # state'.current_seal \/ state'.seal_just_confirmed) )
        => ( /\ state'.seal_just_confirmed
             /\ \/ sequence' = Append(sequence, state'.current_seal)
                \/ /\ now' - last_seal_time > SEQUENCE_TIMEOUT_SEC
                   /\ sequence' = << state'.current_seal >>
             /\ state'.confirmed_sequence = sequence'
             /\ ~state'.jutsu_just_matched
             /\ pending_single_jutsu' = NoJutsu
             /\ matched_jutsu' = matched_jutsu ) ]_vars

\* C14 witness: ne confirmed after hitsuji while kage_bunshin was armed;
\* nothing is reported and nothing is armed any more.
C14_Witness ==
    /\ call = "update"
    /\ state.seal_just_confirmed
    /\ state.confirmed_sequence = <<"hitsuji", "ne">>
    /\ ~state.jutsu_just_matched
    /\ pending_single_jutsu = NoJutsu

\* The configuration is well formed: a positive window capacity, a
\* non-negative idle timeout and a non-negative single-seal delay.
WellFormed(c) ==
    /\ c.SEAL_HOLD_FRAMES > 0
    /\ c.SEQUENCE_TIMEOUT_SEC >= 0
    /\ c.SINGLE_SEAL_DELAY_SEC >= 0

\* C15 (as claimed): a tracker is constructed, and then runs an update, only
\* under a well-formed configuration; a malformed one is rejected by the
\* constructor.
C15_MalformedRejected ==
    call = "update" => WellFormed(config)

\* C16 (as claimed): an update confirms a seal only when the seal has been
\* held for SEAL_HOLD_FRAMES frames, that is, when the window holds
\* SEAL_HOLD_FRAMES entries and all of them are that seal.
C16_HeldForHoldFrames ==
    (call = "update" /\ state.seal_just_confirmed)
        => Count(window, state.current_seal) >= SEAL_HOLD_FRAMES

\* C17: a classifier without a model stays without one (is_loaded false)
\* through a load of a path that does not exist, which returns False, and
\* through a predict, which raises RuntimeError and returns no label; and a
\* newly made classifier has no model.
C17_NotLoaded ==
    [][ /\ (outcome'.op = "load" /\ files[outcome'.path] = Absent)
           => /\ ~outcome'.ok
              /\ clf_model' = clf_model
              /\ ~IsLoaded(clf_model) => ~IsLoaded(clf_model')
        /\ (outcome'.op = "predict" /\ ~IsLoaded(clf_model))
           => /\ outcome'.raised = "RuntimeError"
              /\ ~outcome'.ok
              /\ outcome'.label = None
              /\ ~IsLoaded(clf_model')
        /\ outcome'.op = "init" => ~IsLoaded(clf_model') ]_vars

\* C17 witness: predict raised on a classifier that has no model, while one
\* path holds a saved model and nothing exists under the other.
C17_Witness ==
    /\ outcome.op = "predict"
    /\ outcome.raised = "RuntimeError"
    /\ ~IsLoaded(clf_model)
    /\ \E p \in Paths : files[p] = Absent
    /\ \E p \in Paths : files[p] # Absent

\* The seals in the window.
WindowSeals == {window[i] : i \in DOMAIN window} \ {None}

TopSeals == {s \in WindowSeals : \A u \in WindowSeals : Count(window, s) >= Count(window, u)}

\* C19: after each update, when two or more seals tie for the highest count
\* in the window the current seal is none; at most one seal has a majority;
\* and whichever seal of highest count the vote picks, applying the majority
\* test to it gives the current seal.
C19_TiesAreNone ==
    call = "update" =>
        /\ Cardinality(TopSeals) >= 2 => state.current_seal = None
        /\ Cardinality({s \in WindowSeals : 2 * Count(window, s) > Len(window)}) <= 1
        /\ \A b \in TopSeals :
               state.current_seal =
                   IF Count(window, b) > Len(window) \div 2 THEN b ELSE None

\* C19 witness: ushi and tori tie with two entries each in a full window
\* whose oldest entry is none, and the current seal is none.
C19_Witness ==
    /\ call = "update"
    /\ window = << None, "ushi", "tori", "tori", "ushi" >>
    /\ state.current_seal = None

\* C20 (as claimed): when an update has no stable seal and the next update
\* has the stable seal x, that update confirms x and appends it, also when x
\* is already the last seal of the confirmed sequence; and when x is the
\* stable seal and the next input is none or below the threshold and leaves x
\* the stable seal, that update confirms nothing and appends nothing.
C20_RepeatAfterGap ==
    [][ (call = "update" /\ call' = "update" /\ state'.current_seal # None)
        => /\ state.current_seal = None
              => /\ state'.seal_just_confirmed
                 /\ \/ sequence' = Append(sequence, state'.current_seal)
                    \/ /\ now' - last_seal_time > SEQUENCE_TIMEOUT_SEC
                       /\ sequence' = << state'.current_seal >>
           /\ (state.current_seal = state'.current_seal /\ ~Passing(inp'))
              => /\ ~state'.seal_just_confirmed
                 /\ Len(sequence') <= Len(sequence) ]_vars

\* C21: an update that confirms a seal for which _match_jutsu selects a jutsu
\* of more than one seal reports it in that same update (jutsu_just_matched,
\* matched_jutsu set to it), and a one-seal jutsu that was pending is
\* discarded: it is not what is reported and nothing is pending afterwards.
C21_LongMatchAtOnce ==
    [][ ( /\ call' = "update"
          /\ state'.seal_just_confirmed
          /\ MatchJutsu(sequence') # NoJutsu
          /\ Len(MatchJutsu(sequence').seals) > 1 )
        => ( /\ state'.jutsu_just_matched
             /\ state'.matched_jutsu = MatchJutsu(sequence')
             /\ matched_jutsu' = MatchJutsu(sequence')
             /\ pending_single_jutsu' = NoJutsu
             /\ pending_single_time' = pending_single_time
             /\ state'.matched_jutsu # pending_single_jutsu ) ]_vars

\* C21 witness: katon_goukakyu reported by the update that confirms tora,
\* less than the delay after hitsuji armed kage_bunshin, which is pending no
\* more.
C21_Witness ==
    /\ call = "update"
    /\ state.seal_just_confirmed
    /\ state.jutsu_just_matched
    /\ state.matched_jutsu.name = "katon_goukakyu"
    /\ now - pending_single_time < SINGLE_SEAL_DELAY_SEC
    /\ pending_single_jutsu = NoJutsu

\* C22: the snapshot of every update carries the tracker's matched jutsu; an
\* update that reports a match sets it to the jutsu reported, and an update
\* that reports none leaves it as it was, also when its idle-timeout check
\* empties the sequence. So it is the jutsu reported last, until a reset.
C22_MatchedPersists ==
    [][ call' = "update" =>
        /\ state'.matched_jutsu = matched_jutsu'
        /\ state'.jutsu_just_matched => matched_jutsu' # NoJutsu
        /\ ~state'.jutsu_just_matched => matched_jutsu' = matched_jutsu ]_vars

\* C22 witness: kage_bunshin is still the matched jutsu in the snapshot of an
\* update that reports nothing and whose idle timeout has emptied the
\* sequence.
C22_Witness ==
    /\ call = "update"
    /\ ~state.jutsu_just_matched
    /\ state.matched_jutsu.name = "kage_bunshin"
    /\ state.confirmed_sequence = <<>>
    /\ now - last_seal_time > SEQUENCE_TIMEOUT_SEC

C24_WindowIgnoresClock ==
    [][ call' = "update" =>
        LET idle == sequence # <<>> /\ now' - last_seal_time > SEQUENCE_TIMEOUT_SEC
            s    == IF Passing(inp') THEN inp'.seal ELSE None
        IN  /\ window' = IF Len(window) < SEAL_HOLD_FRAMES
                         THEN Append(window, s)
                         ELSE Append(Tail(window), s)
            /\ state'.current_seal = MajorityVote(window')
            /\ ~idle => /\ Len(sequence') >= Len(sequence)
                        /\ SubSeq(sequence', 1, Len(sequence)) = sequence
            /\ idle => /\ Len(sequence') <= 1
                       /\ sequence' # <<>> => state'.seal_just_confirmed
            /\ (pending_single_jutsu # NoJutsu /\ ~idle /\ ~state'.seal_just_confirmed)
               => (state'.jutsu_just_matched
                      <=> now' - pending_single_time >= SINGLE_SEAL_DELAY_SEC) ]_vars

\* C24 witness: the idle timeout has emptied the sequence while the window,
\* not yet full, still begins with the hitsuji frame that was confirmed.
C24_Witness ==
    /\ call = "update"
    /\ sequence = <<>>
    /\ Len(window) < SEAL_HOLD_FRAMES
    /\ Len(window) > 1
    /\ window[1] = "hitsuji"
    /\ now - last_seal_time > SEQUENCE_TIMEOUT_SEC

\* C25: when a jutsu of several seals ending in x was reported and still ends
\* the sequence, an update that confirms x again, for which _match_jutsu
\* selects the one-seal jutsu [x], arms that jutsu and reports nothing; and
\* the next update that confirms nothing at least SINGLE_SEAL_DELAY_SEC later
\* (within the idle timeout) reports it.
C25_SingleAfterLong ==
    [][ LET again == /\ SuffixMatches(sequence, matched_jutsu.seals)
                     /\ state'.seal_just_confirmed
                     /\ sequence' = Append(sequence, sequence[Len(sequence)])
                     /\ IsSingle(MatchJutsu(sequence'))
            armed == /\ pending_single_jutsu' = MatchJutsu(sequence')
                     /\ pending_single_jutsu'.seals = << sequence[Len(sequence)] >>
                     /\ pending_single_time' = now'
                     /\ ~state'.jutsu_just_matched
            late  == /\ pending_single_jutsu # NoJutsu
                     /\ ~state'.seal_just_confirmed
                     /\ now' - pending_single_time >= SINGLE_SEAL_DELAY_SEC
                     /\ now' - pending_single_time <= SEQUENCE_TIMEOUT_SEC
            told  == /\ state'.jutsu_just_matched
                     /\ state'.matched_jutsu = pending_single_jutsu
        IN  ( /\ call' = "update"
              /\ matched_jutsu # NoJutsu
              /\ Len(matched_jutsu.seals) > 1 )
            => ( (again => armed) /\ (late => told) ) ]_vars

\* C25 witness: kage_bunshin reported after hitsuji was confirmed a second
\* time, chidori having been reported before.
C25_Witness ==
    /\ call = "update"
    /\ state.jutsu_just_matched
    /\ state.matched_jutsu.name = "kage_bunshin"
    /\ sequence = << "ushi", "tori", "hitsuji", "hitsuji" >>

\* C26: _match_jutsu runs only on a new confirmation. Under a positive
\* single-seal delay, a snapshot that reports jutsu_just_matched together with
\* seal_just_confirmed carries a jutsu of more than one seal, and one that
\* reports it without seal_just_confirmed carries a jutsu of one seal.
C26_ReportKinds ==
    ( /\ call = "update"
      /\ config.SINGLE_SEAL_DELAY_SEC > 0
      /\ state.jutsu_just_matched )
    => /\ state.matched_jutsu # NoJutsu
       /\ state.seal_just_confirmed => Len(state.matched_jutsu.seals) > 1
       /\ ~state.seal_just_confirmed => Len(state.matched_jutsu.seals) = 1

\* C26 witness: kage_bunshin reported by an update that confirms nothing,
\* the delay after hitsuji was confirmed behind tori.
C26_Witness ==
    /\ call = "update"
    /\ state.jutsu_just_matched
    /\ ~state.seal_just_confirmed
    /\ Len(state.matched_jutsu.seals) = 1
    /\ state.confirmed_sequence = <<"tori", "hitsuji">>
    /\ now - last_seal_time = SINGLE_SEAL_DELAY_SEC

\* C27: the window is empty after construction and after reset, never holds
\* more than SEAL_HOLD_FRAMES entries, and every update appends its
\* thresholded input and keeps the last SEAL_HOLD_FRAMES entries of the
\* result; so the window is always the most recent thresholded inputs since
\* construction or the last reset, the oldest evicted first.
C27_RollingWindow ==
    [][ LET n     == config.SEAL_HOLD_FRAMES
            given == IF Passing(inp') THEN inp'.seal ELSE None
            all   == Append(window, given)
            last  == IF Len(all) <= n THEN all
                     ELSE SubSeq(all, Len(all) - n + 1, Len(all))
        IN  /\ call = "init" => window = <<>>
            /\ call' \in {"init", "update", "reset"} => Len(window') <= n
            /\ call' = "update" => window' = last
            /\ call' = "reset" => window' = <<>> ]_vars

\* C27 witness: a full window from which the frames that confirmed hitsuji
\* have been evicted.
C27_Witness ==
    /\ call = "update"
    /\ Len(window) = SEAL_HOLD_FRAMES
    /\ sequence = <<"hitsuji", "tori">>
    /\ \A i \in DOMAIN window : window[i] # "hitsuji"
    /\ window[1] = None
    /\ window[SEAL_HOLD_FRAMES] = "tori"

\* C28: between calls, a pending one-seal jutsu was armed by the last
\* confirmation (the sequence is not empty and ends with its seal, and
\* _pending_single_time is _last_seal_time), and _last_confirmed, when it is a
\* seal, is the last seal of the sequence.
C28_PendingAndLastConfirmed ==
    /\ pending_single_jutsu # NoJutsu
       => /\ sequence # <<>>
          /\ pending_single_jutsu.seals = << sequence[Len(sequence)] >>
          /\ pending_single_time = last_seal_time
    /\ last_confirmed # None
       => /\ sequence # <<>>
          /\ last_confirmed = sequence[Len(sequence)]

\* C28 witness: kage_bunshin pending behind [tori, hitsuji] after a later
\* update, hitsuji still being the confirmed seal.
C28_Witness ==
    /\ call = "update"
    /\ pending_single_jutsu # NoJutsu
    /\ sequence = <<"tori", "hitsuji">>
    /\ last_confirmed = "hitsuji"
    /\ ~state.seal_just_confirmed
    /\ inp.seal = None

\* C29 (as claimed): in recognize mode, a frame whose tracker update returns
\* a snapshot with jutsu_just_matched shows the banner of the matched jutsu
\* and triggers its effect in that frame, whether the update was made with a
\* prediction (hands found) or with (None, 0.0) (no hands).
C29_MatchAlwaysShown ==
    ( /\ drawn.path \in {"predict", "empty"}
      /\ call = "update"
      /\ state.jutsu_just_matched )
    => /\ drawn.banner = Display(state.matched_jutsu.name)
       /\ drawn.effect = Stem(EffectAsset(state.matched_jutsu.name))
       /\ active_effect = Stem(EffectAsset(state.matched_jutsu.name))
       /\ effect_start = now

\* C30: _count_matching_prefix(confirmed, target) returns the largest L such
\* that the last L seals of confirmed are the first L seals of target; that
\* is 0 when no seal overlaps and when either list is empty.
C30_LargestOverlap ==
    completed # NotCounted =>
        LET confirmed == overlay_sequence
            target    == selected_jutsu_seals
            shorter   == IF Len(confirmed) < Len(target) THEN Len(confirmed)
                         ELSE Len(target)
            overlaps  == { L \in 0..shorter :
                             \A i \in 1..L :
                                 confirmed[Len(confirmed) - L + i] = target[i] }
        IN  /\ completed \in overlaps
            /\ \A L \in overlaps : L <= completed
            /\ (confirmed = <<>> \/ target = <<>>) => completed = 0

\* C30 witness: the last two seals of [tori, hitsuji, hitsuji] are the first
\* two of [hitsuji, hitsuji, tori] (the last one alone is its first, too),
\* and 2 was returned.
C30_Witness ==
    /\ overlay_sequence = <<"tori", "hitsuji", "hitsuji">>
    /\ selected_jutsu_seals = <<"hitsuji", "hitsuji", "tori">>
    /\ completed = 2

====
